---------------------------- MODULE Spec2Model ----------------------------
(***************************************************************************)
(* A model of the two stock-screening programs of the repository:          *)
(*   stock.py  the interactive variant (get_float_list, main)              *)
(*   test.py   the fetched variant (fetch_financials, calculate_indicators,*)
(*             apply_buffett_criteria, display_results, main)              *)
(*                                                                         *)
(* Numbers.  A Python float is modelled by the exact rational it denotes,  *)
(* a pair <<n, d>> with d > 0.  Comparisons are by cross multiplication.   *)
(* Rounding of IEEE doubles is not modelled.                               *)
(* Text.  A line typed at the terminal is a sequence of one-character      *)
(* strings; split, strip and float are computed on it character by         *)
(* character.                                                              *)
(***************************************************************************)
EXTENDS Integers, Sequences, FiniteSets, TLC

\* ------------------------------------------------------------------ bounds
\* rejected lines followed in one run of stock.py
MaxAttempts == 2
\* the largest --years_eps window explored
MaxYears == 5
\* the largest --quarters_rev window explored
MaxQuarters == 4
\* the longest statement row / income history the provider returns
MaxRow == 5

\* ------------------------------------------------------- program constants
\* stock.py: get_float_list("...EPS", 5), get_float_list("...毛利率", 5)
EpsCount == 5
\* stock.py: get_float_list("...營收", 4), get_float_list("...ROE", 4)
QuarterCount == 4
\* test.py: --years_eps default
DefaultYears == 5
\* test.py: --quarters_rev default
DefaultQuarters == 4

\* Python's None for an optional number (also: a key absent from a dict read
\* with .get).  A number is a pair, so the empty tuple is free to stand for it.
None == <<>>

\* ---------------------------------------------------------------- numbers
Rat(n, d) == <<n, d>>
RatGt(a, b) == a[1] * b[2] > b[1] * a[2]
RatLt(a, b) == a[1] * b[2] < b[1] * a[2]
RatEq(a, b) == a[1] * b[2] = b[1] * a[2]
IsZero(a) == a[1] = 0
\* a / b for b # 0, the denominator kept positive
RatDiv(a, b) ==
    IF b[1] > 0 THEN <<a[1] * b[2], a[2] * b[1]>>
    ELSE <<-(a[1] * b[2]), -(a[2] * b[1])>>
\* a * 100
Times100(a) == <<a[1] * 100, a[2]>>
\* Python truthiness of an optional number: None and 0 are falsy
Truthy(x) == x # None /\ ~IsZero(x)

\* the five thresholds
EpsThreshold == Rat(1, 1)
RevThreshold == Rat(3, 2)
PbThreshold == Rat(3, 2)
RoeThreshold == Rat(5, 1)
GmThreshold == Rat(10, 1)

\* all(x > t for x in xs); an empty xs gives TRUE
AllGt(xs, t) == \A i \in 1..Len(xs) : RatGt(xs[i], t)

\* ------------------------------------------------------------------- text
Digits == {"0", "1", "2", "3", "4", "5", "6", "7", "8", "9"}
DigitVal ==
    [c \in Digits |->
        CASE c = "0" -> 0 [] c = "1" -> 1 [] c = "2" -> 2 [] c = "3" -> 3
          [] c = "4" -> 4 [] c = "5" -> 5 [] c = "6" -> 6 [] c = "7" -> 7
          [] c = "8" -> 8 [] c = "9" -> 9]

\* str.split(","): always at least one piece, empty pieces kept
RECURSIVE split(_)
split(s) ==
    IF \E i \in 1..Len(s) : s[i] = ","
    THEN LET i == CHOOSE k \in 1..Len(s) :
                      s[k] = "," /\ \A j \in 1..(k - 1) : s[j] # ","
         IN  <<SubSeq(s, 1, i - 1)>> \o split(SubSeq(s, i + 1, Len(s)))
    ELSE <<s>>

\* str.strip(): blanks removed at both ends
RECURSIVE strip(_)
strip(s) ==
    IF s = <<>> THEN s
    ELSE IF s[1] = " " THEN strip(Tail(s))
    ELSE IF s[Len(s)] = " " THEN strip(SubSeq(s, 1, Len(s) - 1))
    ELSE s

RECURSIVE DigitsValue(_)
DigitsValue(ds) ==
    IF ds = <<>> THEN 0
    ELSE 10 * DigitsValue(SubSeq(ds, 1, Len(ds) - 1)) + DigitVal[ds[Len(ds)]]

RECURSIVE Pow10(_)
Pow10(k) == IF k = 0 THEN 1 ELSE 10 * Pow10(k - 1)

\* the unsigned part of a decimal literal: digits, at most one point, and at
\* least one digit ("3", "3.", ".5", "1.50")
IsUnsigned(u) ==
    /\ \A i \in 1..Len(u) : u[i] \in Digits \cup {"."}
    /\ Cardinality({i \in 1..Len(u) : u[i] = "."}) <= 1
    /\ \E i \in 1..Len(u) : u[i] \in Digits

UnsignedValue(u) ==
    LET ds   == SelectSeq(u, LAMBDA c : c \in Digits)
        frac == IF \E i \in 1..Len(u) : u[i] = "."
                THEN Len(u) - (CHOOSE i \in 1..Len(u) : u[i] = ".")
                ELSE 0
    IN  Rat(DigitsValue(ds), Pow10(frac))

\* float(t) succeeds: blanks around the literal are ignored, one sign is
\* allowed.  The lines of the model use digits, ".", "-", "+", " " and
\* letters that are no part of a literal (no exponent, inf, nan or "_").
IsFloat(t) ==
    LET u == strip(t)
    IN  /\ u # <<>>
        /\ IF u[1] \in {"-", "+"} THEN IsUnsigned(Tail(u)) ELSE IsUnsigned(u)

\* float(t) where IsFloat(t)
float(t) ==
    LET u == strip(t)
    IN  IF u[1] = "-"
        THEN LET v == UnsignedValue(Tail(u)) IN Rat(-v[1], v[2])
        ELSE IF u[1] = "+" THEN UnsignedValue(Tail(u))
        ELSE UnsignedValue(u)

\* get_float_list without the check of line 10 (len(values) != count)
get_float_list_any_count(line, count) ==
    LET pieces == split(line)
    IN  IF \A i \in 1..Len(pieces) : IsFloat(strip(pieces[i]))
        THEN [ok |-> TRUE,
              values |-> [i \in 1..Len(pieces) |-> float(strip(pieces[i]))]]
        ELSE [ok |-> FALSE, values |-> <<>>]

\* One pass of the loop of get_float_list on the line read: ok with the
\* values returned, or not ok when the pass ends in the ValueError handler
\* (a piece that is no float, or len(values) != count).
get_float_list(line, count) ==
    LET pieces == split(line)
    IN  IF /\ \A i \in 1..Len(pieces) : IsFloat(strip(pieces[i]))
           /\ Len(pieces) = count
        THEN [ok |-> TRUE,
              values |-> [i \in 1..Len(pieces) |-> float(strip(pieces[i]))]]
        ELSE [ok |-> FALSE, values |-> <<>>]

\* ------------------------------------------------------------------ state
VARIABLES
    \* stock.py
    ipc,                    \* where main of stock.py stands
    lastLine,               \* the line input() returned last
    errors,                 \* error messages get_float_list printed so far
    eps_5y, revenue_4q, roe_4q, gross_margin_5y,
    price, book_value_per_share, pb_ratio,
    conditions,             \* the ordered dict of line 44, as (desc, passed) pairs
    printed,                \* what lines 53-61 printed: the lines and the verdict
    \* test.py
    tpc,                    \* where main of test.py stands
    args,                   \* years_eps, quarters_rev
    ticker,                 \* what the data provider answers: raises, info, qf, fin
    data,                   \* the dict fetch_financials returns
    error,                  \* the exception that ended the fetch or the run
    crit,                   \* the ordered dict apply_buffett_criteria returns
    shown,                  \* what display_results printed
    exit_code               \* the status sys.exit was called with

stockVars ==
    <<ipc, lastLine, errors, eps_5y, revenue_4q, roe_4q, gross_margin_5y,
      price, book_value_per_share, pb_ratio, conditions, printed>>
testVars == <<tpc, args, ticker, data, error, crit, shown, exit_code>>
vars == <<stockVars, testVars>>

Recommended == "recommended"
NotRecommended == "not recommended"
NoVerdict == "nothing printed"
NothingPrinted == [lines |-> <<>>, verdict |-> NoVerdict]

\* the verdict line: all(conditions.values())
Verdict(results) ==
    IF \A i \in 1..Len(results) : results[i].passed
    THEN Recommended ELSE NotRecommended

\* ------------------------------------------------ stock.py: the lines typed
L_12345 == <<"1", ",", "2", ",", "3", ",", "4", ",", "5">>
L_123 == <<"1", ",", "2", ",", "3">>
L_abcde == <<"a", ",", "b", ",", "c", ",", "d", ",", "e">>
\* "12, 12 ,12,12,+12."
L_spaced5 ==
    <<"1", "2", ",", " ", "1", "2", " ", ",", "1", "2", ",", "1", "2", ",",
      "+", "1", "2", ".">>
\* "6,6,6,6"
L_6666 == <<"6", ",", "6", ",", "6", ",", "6">>
\* "1.5,5,10,1"
L_edges4 == <<"1", ".", "5", ",", "5", ",", "1", "0", ",", "1">>
\* "-1,6,6,6"
L_neg4 == <<"-", "1", ",", "6", ",", "6", ",", "6">>
\* "6,,6,6,6": an empty piece
L_gap == <<"6", ",", ",", "6", ",", "6", ",", "6">>
\* "11,11,11,11,10"
L_edge5 ==
    <<"1", "1", ",", "1", "1", ",", "1", "1", ",", "1", "1", ",", "1", "0">>
L_empty == <<>>
ListLines ==
    {L_12345, L_123, L_abcde, L_spaced5, L_6666, L_edges4, L_neg4, L_gap,
     L_edge5, L_empty}
\* "3", " 3.0", "2", "4", "0", "-2", "x", ""
ScalarLines ==
    {<<"3">>, <<" ", "3", ".", "0">>, <<"2">>, <<"4">>, <<"0">>,
     <<"-", "2">>, <<"x">>, <<>>}

\* ------------------------------------------------------- stock.py: main
\* line 21: eps_5y = get_float_list(..., 5), one pass of its loop per step
InputEps ==
    /\ ipc = "eps"
    /\ \E line \in ListLines :
         LET r == get_float_list(line, EpsCount)
         IN  /\ lastLine' = line
             /\ IF r.ok
                THEN /\ eps_5y' = r.values
                     /\ errors' = errors
                     /\ ipc' = "rev"
                ELSE /\ errors < MaxAttempts
                     /\ errors' = errors + 1
                     /\ UNCHANGED <<eps_5y, ipc>>
    /\ UNCHANGED <<revenue_4q, roe_4q, gross_margin_5y, price,
                   book_value_per_share, pb_ratio, conditions, printed>>
    /\ UNCHANGED testVars

\* line 24: revenue_4q = get_float_list(..., 4)
InputRevenue ==
    /\ ipc = "rev"
    /\ \E line \in ListLines :
         LET r == get_float_list(line, QuarterCount)
         IN  /\ lastLine' = line
             /\ IF r.ok
                THEN /\ revenue_4q' = r.values
                     /\ errors' = errors
                     /\ ipc' = "roe"
                ELSE /\ errors < MaxAttempts
                     /\ errors' = errors + 1
                     /\ UNCHANGED <<revenue_4q, ipc>>
    /\ UNCHANGED <<eps_5y, roe_4q, gross_margin_5y, price,
                   book_value_per_share, pb_ratio, conditions, printed>>
    /\ UNCHANGED testVars

\* line 27: roe_4q = get_float_list(..., 4)
InputRoe ==
    /\ ipc = "roe"
    /\ \E line \in ListLines :
         LET r == get_float_list(line, QuarterCount)
         IN  /\ lastLine' = line
             /\ IF r.ok
                THEN /\ roe_4q' = r.values
                     /\ errors' = errors
                     /\ ipc' = "gm"
                ELSE /\ errors < MaxAttempts
                     /\ errors' = errors + 1
                     /\ UNCHANGED <<roe_4q, ipc>>
    /\ UNCHANGED <<eps_5y, revenue_4q, gross_margin_5y, price,
                   book_value_per_share, pb_ratio, conditions, printed>>
    /\ UNCHANGED testVars

\* line 30: gross_margin_5y = get_float_list(..., 5)
InputGrossMargin ==
    /\ ipc = "gm"
    /\ \E line \in ListLines :
         LET r == get_float_list(line, EpsCount)
         IN  /\ lastLine' = line
             /\ IF r.ok
                THEN /\ gross_margin_5y' = r.values
                     /\ errors' = errors
                     /\ ipc' = "price"
                ELSE /\ errors < MaxAttempts
                     /\ errors' = errors + 1
                     /\ UNCHANGED <<gross_margin_5y, ipc>>
    /\ UNCHANGED <<eps_5y, revenue_4q, roe_4q, price,
                   book_value_per_share, pb_ratio, conditions, printed>>
    /\ UNCHANGED testVars

\* AfterScalar asking again (as the list fields do) instead of returning
AfterScalarRetry(line, next) == IF IsFloat(line) THEN next ELSE "price"

\* the position after float(input()) of lines 34 and 35: the next statement
\* when the line is a float, the except branch (print, return) when not
AfterScalar(line, next) == IF IsFloat(line) THEN next ELSE "aborted"

\* line 34: price = float(input(...)), inside the try of line 33
InputPrice ==
    /\ ipc = "price"
    /\ \E line \in ScalarLines :
         /\ lastLine' = line
         /\ ipc' = AfterScalar(line, "bvps")
         /\ price' = IF IsFloat(line) THEN float(line) ELSE price
    /\ UNCHANGED <<errors, eps_5y, revenue_4q, roe_4q, gross_margin_5y,
                   book_value_per_share, pb_ratio, conditions, printed>>
    /\ UNCHANGED testVars

\* line 35: book_value_per_share = float(input(...))
InputBookValue ==
    /\ ipc = "bvps"
    /\ \E line \in ScalarLines :
         /\ lastLine' = line
         /\ ipc' = AfterScalar(line, "pb")
         /\ book_value_per_share' =
                IF IsFloat(line) THEN float(line) ELSE book_value_per_share
    /\ UNCHANGED <<errors, eps_5y, revenue_4q, roe_4q, gross_margin_5y,
                   price, pb_ratio, conditions, printed>>
    /\ UNCHANGED testVars

\* line 41: pb_ratio = price / book_value_per_share; a zero divisor raises
\* ZeroDivisionError, which nothing catches
ComputePb ==
    /\ ipc = "pb"
    /\ IF IsZero(book_value_per_share)
       THEN /\ ipc' = "crashed"
            /\ UNCHANGED pb_ratio
       ELSE /\ ipc' = "criteria"
            /\ pb_ratio' = RatDiv(price, book_value_per_share)
    /\ UNCHANGED <<lastLine, errors, eps_5y, revenue_4q, roe_4q,
                   gross_margin_5y, price, book_value_per_share, conditions,
                   printed>>
    /\ UNCHANGED testVars

\* StockConditions with condition 3 written <= instead of <
StockConditionsPbLe(eps, rev, pb, roe, gm) ==
    << [desc |-> "1. EPS 5y > 1", passed |-> AllGt(eps, EpsThreshold)],
       [desc |-> "2. revenue 4q > 1.5", passed |-> AllGt(rev, RevThreshold)],
       [desc |-> "3. P/B < 1.5", passed |-> ~RatGt(pb, PbThreshold)],
       [desc |-> "4. ROE 4q > 5%", passed |-> AllGt(roe, RoeThreshold)],
       [desc |-> "5. gross margin 5y > 10%", passed |-> AllGt(gm, GmThreshold)] >>

\* lines 44-50: the conditions dict, in insertion order
StockConditions(eps, rev, pb, roe, gm) ==
    << [desc |-> "1. EPS 5y > 1", passed |-> AllGt(eps, EpsThreshold)],
       [desc |-> "2. revenue 4q > 1.5", passed |-> AllGt(rev, RevThreshold)],
       [desc |-> "3. P/B < 1.5", passed |-> RatLt(pb, PbThreshold)],
       [desc |-> "4. ROE 4q > 5%", passed |-> AllGt(roe, RoeThreshold)],
       [desc |-> "5. gross margin 5y > 10%", passed |-> AllGt(gm, GmThreshold)] >>

\* lines 44-61: evaluate the five conditions, print them and the verdict
EvaluateAndReport ==
    /\ ipc = "criteria"
    /\ LET c == StockConditions(eps_5y, revenue_4q, pb_ratio, roe_4q,
                                gross_margin_5y)
       IN  /\ conditions' = c
           /\ printed' = [lines |-> c, verdict |-> Verdict(c)]
    /\ ipc' = "done"
    /\ UNCHANGED <<lastLine, errors, eps_5y, revenue_4q, roe_4q,
                   gross_margin_5y, price, book_value_per_share, pb_ratio>>
    /\ UNCHANGED testVars

StockNext ==
    \/ InputEps
    \/ InputRevenue
    \/ InputRoe
    \/ InputGrossMargin
    \/ InputPrice
    \/ InputBookValue
    \/ ComputePb
    \/ EvaluateAndReport

\* ------------------------------------------------- test.py: fetch_financials
Min(a, b) == IF a < b THEN a ELSE b
\* xs[:n] for n >= 0
Take(xs, n) == SubSeq(xs, 1, Min(n, Len(xs)))
\* [x] * n
Repeat(x, n) == [i \in 1..n |-> x]
\* a or b
PyOr(a, b) == IF Truthy(a) THEN a ELSE b

Ok(v) == [ok |-> TRUE, value |-> v, error |-> ""]
Raise(msg) == [ok |-> FALSE, value |-> <<>>, error |-> msg]

\* lines 26-29: price and book value, no fallback; only None is refused
price_section(info) ==
    IF info.regularMarketPrice = None \/ info.bookValue = None
    THEN Raise("no price or book value")
    ELSE Ok(<<info.regularMarketPrice, info.bookValue>>)

\* eps_section without the fallback of lines 40-44: the partial list is kept
eps_section_partial(info, years_eps) ==
    LET shares   == info.sharesOutstanding
        recs     == Take(info.incomeStatementHistory, years_eps)
        usable   == SelectSeq(recs, LAMBDA ni : Truthy(ni) /\ Truthy(shares))
    IN  Ok([i \in 1..Len(usable) |-> RatDiv(usable[i], shares)])

\* lines 32-44: annual EPS.  A record counts only if its net income and the
\* share count are both truthy; fewer than years_eps entries: trailingEps
eps_section(info, years_eps) ==
    LET shares   == info.sharesOutstanding
        recs     == Take(info.incomeStatementHistory, years_eps)
        usable   == SelectSeq(recs, LAMBDA ni : Truthy(ni) /\ Truthy(shares))
        eps_list == [i \in 1..Len(usable) |-> RatDiv(usable[i], shares)]
    IN  IF Len(eps_list) < years_eps
        THEN IF info.trailingEps = None
             THEN Raise("no annual EPS")
             ELSE Ok(Repeat(info.trailingEps, years_eps))
        ELSE Ok(eps_list)

\* lines 47-51: quarterly revenue, no fallback
rev_section(qf, quarters_rev) ==
    LET rev == IF "Total Revenue" \in qf.index
               THEN Take(qf.loc["Total Revenue"], quarters_rev)
               ELSE <<>>
    IN  IF Len(rev) < quarters_rev
        THEN Raise("quarterly revenue too short")
        ELSE Ok(rev)

\* lines 54-66: quarterly ROE, computed or the profile's figure repeated
roe_section(info, qf, quarters_rev) ==
    LET equity == info.totalStockholderEquity
        raw_ni == IF "Net Income" \in qf.index
                  THEN Take(qf.loc["Net Income"], quarters_rev)
                  ELSE <<>>
        roe    == IF /\ "Net Income" \in qf.index
                     /\ Truthy(equity)
                     /\ Len(raw_ni) = quarters_rev
                  THEN [i \in 1..Len(raw_ni) |->
                           Times100(RatDiv(raw_ni[i], equity))]
                  ELSE <<>>
        fallback_roe == PyOr(info.trailingReturnOnEquity, info.returnOnEquity)
    IN  IF Len(roe) < quarters_rev
        THEN IF fallback_roe = None
             THEN Raise("no quarterly ROE")
             ELSE Ok(Repeat(fallback_roe, quarters_rev))
        ELSE Ok(roe)

\* lines 69-77: annual gross margin, no fallback; a zero revenue makes the
\* float division of line 75 raise ZeroDivisionError
gm_section(fin, years_eps) ==
    IF "Gross Profit" \in fin.index /\ "Total Revenue" \in fin.index
    THEN LET gp == Take(fin.loc["Gross Profit"], years_eps)
             tr == Take(fin.loc["Total Revenue"], years_eps)
         IN  IF Len(gp) < years_eps \/ Len(tr) < years_eps
             THEN Raise("annual gross margin too short")
             ELSE IF \E i \in 1..Min(Len(gp), Len(tr)) : IsZero(tr[i])
             THEN Raise("ZeroDivisionError")
             ELSE Ok([i \in 1..Min(Len(gp), Len(tr)) |->
                         Times100(RatDiv(gp[i], tr[i]))])
    ELSE Raise("no annual gross margin")

NoData ==
    [eps_5y |-> <<>>, rev_4q |-> <<>>, roe_4q |-> <<>>, gm_5y |-> <<>>,
     price |-> None, bvps |-> None, pb_ratio |-> None]

\* lines 21-87: the sections in order, the first exception ending the fetch;
\* the provider itself may raise on the first access
fetch_financials(t, years_eps, quarters_rev) ==
    LET p == price_section(t.info)
        e == eps_section(t.info, years_eps)
        r == rev_section(t.qf, quarters_rev)
        o == roe_section(t.info, t.qf, quarters_rev)
        g == gm_section(t.fin, years_eps)
    IN  IF t.raises THEN Raise("provider error")
        ELSE IF ~p.ok THEN Raise(p.error)
        ELSE IF ~e.ok THEN Raise(e.error)
        ELSE IF ~r.ok THEN Raise(r.error)
        ELSE IF ~o.ok THEN Raise(o.error)
        ELSE IF ~g.ok THEN Raise(g.error)
        ELSE Ok([eps_5y |-> e.value, rev_4q |-> r.value, roe_4q |-> o.value,
                 gm_5y |-> g.value, price |-> p.value[1], bvps |-> p.value[2],
                 pb_ratio |-> None])

\* lines 92-94: data['pb_ratio'] = data['price'] / data['bvps']
calculate_indicators(d) ==
    [d EXCEPT !.pb_ratio = RatDiv(d.price, d.bvps)]

\* apply_buffett_criteria with criterion 1 written >= instead of >
apply_buffett_criteria_ge(d) ==
    << [desc |-> "EPS 5y > 1",
        passed |-> \A i \in 1..Len(d.eps_5y) : ~RatLt(d.eps_5y[i], EpsThreshold)],
       [desc |-> "revenue 4q > 1.5", passed |-> AllGt(d.rev_4q, RevThreshold)],
       [desc |-> "P/B < 1.5", passed |-> RatLt(d.pb_ratio, PbThreshold)],
       [desc |-> "ROE 4q > 5%", passed |-> AllGt(d.roe_4q, RoeThreshold)],
       [desc |-> "gross margin 5y > 10%", passed |-> AllGt(d.gm_5y, GmThreshold)] >>

\* apply_buffett_criteria with criterion 2 reading the EPS history
apply_buffett_criteria_wrong_field(d) ==
    << [desc |-> "EPS 5y > 1", passed |-> AllGt(d.eps_5y, EpsThreshold)],
       [desc |-> "revenue 4q > 1.5", passed |-> AllGt(d.eps_5y, RevThreshold)],
       [desc |-> "P/B < 1.5", passed |-> RatLt(d.pb_ratio, PbThreshold)],
       [desc |-> "ROE 4q > 5%", passed |-> AllGt(d.roe_4q, RoeThreshold)],
       [desc |-> "gross margin 5y > 10%", passed |-> AllGt(d.gm_5y, GmThreshold)] >>

\* lines 97-104
apply_buffett_criteria(d) ==
    << [desc |-> "EPS 5y > 1", passed |-> AllGt(d.eps_5y, EpsThreshold)],
       [desc |-> "revenue 4q > 1.5", passed |-> AllGt(d.rev_4q, RevThreshold)],
       [desc |-> "P/B < 1.5", passed |-> RatLt(d.pb_ratio, PbThreshold)],
       [desc |-> "ROE 4q > 5%", passed |-> AllGt(d.roe_4q, RoeThreshold)],
       [desc |-> "gross margin 5y > 10%", passed |-> AllGt(d.gm_5y, GmThreshold)] >>

\* lines 109-114
display_results(criteria_results) ==
    [lines |-> criteria_results, verdict |-> Verdict(criteria_results)]

\* ------------------------------------------------------- test.py: main
\* lines 120-126: the fetch inside try; any exception prints and exits 1
Fetch ==
    /\ tpc = "start"
    /\ LET f == fetch_financials(ticker, args.years_eps, args.quarters_rev)
       IN  IF f.ok
           THEN /\ data' = f.value
                /\ tpc' = "fetched"
                /\ UNCHANGED <<error, exit_code>>
           ELSE /\ error' = f.error
                /\ exit_code' = 1
                /\ tpc' = "exited"
                /\ UNCHANGED data
    /\ UNCHANGED <<args, ticker, crit, shown>>
    /\ UNCHANGED stockVars

\* line 128, outside the try: a zero bvps raises ZeroDivisionError, which
\* nothing catches (the interpreter prints a traceback and ends with status 1)
Calculate ==
    /\ tpc = "fetched"
    /\ IF IsZero(data.bvps)
       THEN /\ tpc' = "crashed"
            /\ error' = "ZeroDivisionError"
            /\ exit_code' = 1
            /\ UNCHANGED data
       ELSE /\ tpc' = "calculated"
            /\ data' = calculate_indicators(data)
            /\ UNCHANGED <<error, exit_code>>
    /\ UNCHANGED <<args, ticker, crit, shown>>
    /\ UNCHANGED stockVars

\* line 129
Apply ==
    /\ tpc = "calculated"
    /\ crit' = apply_buffett_criteria(data)
    /\ tpc' = "applied"
    /\ UNCHANGED <<args, ticker, data, error, shown, exit_code>>
    /\ UNCHANGED stockVars

\* line 131, then the normal end of the interpreter
Display ==
    /\ tpc = "applied"
    /\ shown' = display_results(crit)
    /\ tpc' = "done"
    /\ exit_code' = 0
    /\ UNCHANGED <<args, ticker, data, error, crit>>
    /\ UNCHANGED stockVars

TestNext ==
    \/ Fetch
    \/ Calculate
    \/ Apply
    \/ Display

\* --------------------------------------------- what the provider may answer
\* rows of one value, of every length up to MaxRow
ConstRows(v) == {Repeat(v, n) : n \in 0..MaxRow}
\* the same, and the rows with one entry replaced by one of alts
OneOffRows(v, alts) ==
    ConstRows(v) \cup
    UNION {{[i \in 1..n |-> IF i = k THEN a ELSE v] : k \in 1..n, a \in alts} :
           n \in 1..MaxRow}

Table(labels, rows) == [index |-> labels, loc |-> rows]

PriceCases ==
    [regularMarketPrice : {None, Rat(3, 1)},
     bookValue : {None, Rat(0, 1), Rat(2, 1), Rat(4, 1)}]
\* net income 9 over 2 shares: EPS 4.5; net income 2: EPS 1, on the threshold
EpsCases ==
    [sharesOutstanding : {None, Rat(0, 1), Rat(2, 1)},
     incomeStatementHistory : OneOffRows(Rat(9, 1), {None, Rat(0, 1), Rat(2, 1)}),
     trailingEps : {None, Rat(0, 1), Rat(9, 2)}]
RevCases ==
    [present : BOOLEAN, row : ConstRows(Rat(2, 1))]
\* net income 1 over equity 10: ROE 10%
RoeCases ==
    [present : BOOLEAN, row : ConstRows(Rat(1, 1)),
     totalStockholderEquity : {None, Rat(0, 1), Rat(10, 1)},
     trailingReturnOnEquity : {None, Rat(0, 1), Rat(7, 1)},
     returnOnEquity : {None, Rat(0, 1), Rat(123, 10)}]
\* gross profit 1 over revenue 5: margin 20%
GmCases ==
    [gp_present : BOOLEAN, gp : ConstRows(Rat(1, 1)),
     tr_present : BOOLEAN, tr : OneOffRows(Rat(5, 1), {Rat(0, 1)})]

\* a provider with everything the preferred paths need, for the default windows
GoodPrice == [regularMarketPrice |-> Rat(3, 1), bookValue |-> Rat(4, 1)]
GoodEps ==
    [sharesOutstanding |-> Rat(2, 1),
     incomeStatementHistory |-> Repeat(Rat(9, 1), MaxRow),
     trailingEps |-> Rat(9, 2)]
GoodRev == [present |-> TRUE, row |-> Repeat(Rat(2, 1), MaxRow)]
GoodRoe ==
    [present |-> TRUE, row |-> Repeat(Rat(1, 1), MaxRow),
     totalStockholderEquity |-> Rat(10, 1),
     trailingReturnOnEquity |-> Rat(7, 1),
     returnOnEquity |-> Rat(123, 10)]
GoodGm ==
    [gp_present |-> TRUE, gp |-> Repeat(Rat(1, 1), MaxRow),
     tr_present |-> TRUE, tr |-> Repeat(Rat(5, 1), MaxRow)]

\* the answers of yf.Ticker: .info, .quarterly_financials, .financials
Ticker(raises, p, e, r, o, g) ==
    [raises |-> raises,
     info |-> [regularMarketPrice |-> p.regularMarketPrice,
               bookValue |-> p.bookValue,
               sharesOutstanding |-> e.sharesOutstanding,
               incomeStatementHistory |-> e.incomeStatementHistory,
               trailingEps |-> e.trailingEps,
               totalStockholderEquity |-> o.totalStockholderEquity,
               trailingReturnOnEquity |-> o.trailingReturnOnEquity,
               returnOnEquity |-> o.returnOnEquity],
     qf |-> Table((IF r.present THEN {"Total Revenue"} ELSE {}) \cup
                  (IF o.present THEN {"Net Income"} ELSE {}),
                  [l \in {"Total Revenue", "Net Income"} |->
                      IF l = "Total Revenue"
                      THEN (IF r.present THEN r.row ELSE <<>>)
                      ELSE (IF o.present THEN o.row ELSE <<>>)]),
     fin |-> Table((IF g.gp_present THEN {"Gross Profit"} ELSE {}) \cup
                   (IF g.tr_present THEN {"Total Revenue"} ELSE {}),
                   [l \in {"Gross Profit", "Total Revenue"} |->
                       IF l = "Gross Profit"
                       THEN (IF g.gp_present THEN g.gp ELSE <<>>)
                       ELSE (IF g.tr_present THEN g.tr ELSE <<>>)])]

GoodTicker == Ticker(FALSE, GoodPrice, GoodEps, GoodRev, GoodRoe, GoodGm)

\* a few answers per field, to combine the fields with one another
PriceSome == {GoodPrice, [GoodPrice EXCEPT !.bookValue = Rat(0, 1)]}
EpsSome == {GoodEps, [GoodEps EXCEPT !.incomeStatementHistory = <<>>]}
RevSome == {GoodRev, [GoodRev EXCEPT !.row = <<>>]}
RoeSome ==
    {GoodRoe,
     [GoodRoe EXCEPT !.present = FALSE],
     [GoodRoe EXCEPT !.present = FALSE, !.trailingReturnOnEquity = None,
                     !.returnOnEquity = None]}
GmSome == {GoodGm, [GoodGm EXCEPT !.gp_present = FALSE]}

\* One field of the answer ranges over all its cases while the others are
\* good, or every field ranges over a few cases, or the provider raises.
TickerCases ==
    {Ticker(TRUE, GoodPrice, GoodEps, GoodRev, GoodRoe, GoodGm)}
    \cup {Ticker(FALSE, p, GoodEps, GoodRev, GoodRoe, GoodGm) : p \in PriceCases}
    \cup {Ticker(FALSE, GoodPrice, e, GoodRev, GoodRoe, GoodGm) : e \in EpsCases}
    \cup {Ticker(FALSE, GoodPrice, GoodEps, r, GoodRoe, GoodGm) : r \in RevCases}
    \cup {Ticker(FALSE, GoodPrice, GoodEps, GoodRev, o, GoodGm) : o \in RoeCases}
    \cup {Ticker(FALSE, GoodPrice, GoodEps, GoodRev, GoodRoe, g) : g \in GmCases}
    \cup {Ticker(FALSE, p, e, r, o, g) :
            p \in PriceSome, e \in EpsSome, r \in RevSome, o \in RoeSome,
            g \in GmSome}

\* ------------------------------------------------------------ initial states
StockIdle ==
    /\ lastLine = <<>>
    /\ errors = 0
    /\ eps_5y = <<>>
    /\ revenue_4q = <<>>
    /\ roe_4q = <<>>
    /\ gross_margin_5y = <<>>
    /\ price = None
    /\ book_value_per_share = None
    /\ pb_ratio = None
    /\ conditions = <<>>
    /\ printed = NothingPrinted

TestIdle ==
    /\ data = NoData
    /\ error = ""
    /\ crit = <<>>
    /\ shown = NothingPrinted
    /\ exit_code = -1

\* stock.py after line 18 (the stock code is only echoed in the verdict)
StockInit ==
    /\ ipc = "eps"
    /\ StockIdle
    /\ tpc = "off"
    /\ args = [years_eps |-> DefaultYears, quarters_rev |-> DefaultQuarters]
    /\ ticker = GoodTicker
    /\ TestIdle

\* test.py after parse_args, for positive windows
TestInit ==
    /\ tpc = "start"
    /\ args \in [years_eps : 1..MaxYears, quarters_rev : 1..MaxQuarters]
    /\ ticker \in TickerCases
    /\ TestIdle
    /\ ipc = "off"
    /\ StockIdle

\* Snapshots for the evaluation alone: histories of the programs' lengths whose
\* values pass, but for at most one value that sits on the threshold (at any
\* place) or below it (at the first place).
Histories(n, good, edge, bad) ==
    {Repeat(good, n), [i \in 1..n |-> IF i = 1 THEN bad ELSE good]}
    \cup {[i \in 1..n |-> IF i = k THEN edge ELSE good] : k \in 1..n}
EpsHistories == Histories(EpsCount, Rat(9, 2), Rat(1, 1), Rat(-1, 1))
RevHistories == Histories(QuarterCount, Rat(2, 1), Rat(3, 2), Rat(1, 1))
RoeHistories == Histories(QuarterCount, Rat(123, 10), Rat(5, 1), Rat(0, 1))
GmHistories == Histories(EpsCount, Rat(20, 1), Rat(10, 1), Rat(19, 2))
\* P/B 3 (fails), 1.5 (on the threshold), 0.75, -1.5 (pass), and a zero divisor
BookValues == {Rat(1, 1), Rat(2, 1), Rat(4, 1), Rat(-2, 1), Rat(0, 1)}

\* Both programs hold the same snapshot: stock.py stands before line 41 with
\* its six inputs read, test.py before line 128 with the dict of the fetch.
CriteriaInit ==
    /\ eps_5y \in EpsHistories
    /\ revenue_4q \in RevHistories
    /\ roe_4q \in RoeHistories
    /\ gross_margin_5y \in GmHistories
    /\ price = Rat(3, 1)
    /\ book_value_per_share \in BookValues
    /\ ipc = "pb"
    /\ lastLine = <<>>
    /\ errors = 0
    /\ pb_ratio = None
    /\ conditions = <<>>
    /\ printed = NothingPrinted
    /\ tpc = "fetched"
    /\ args = [years_eps |-> DefaultYears, quarters_rev |-> DefaultQuarters]
    /\ ticker = GoodTicker
    /\ data = [eps_5y |-> eps_5y, rev_4q |-> revenue_4q, roe_4q |-> roe_4q,
               gm_5y |-> gross_margin_5y, price |-> price,
               bvps |-> book_value_per_share, pb_ratio |-> None]
    /\ error = ""
    /\ crit = <<>>
    /\ shown = NothingPrinted
    /\ exit_code = -1

CriteriaNext ==
    \/ ComputePb
    \/ EvaluateAndReport
    \/ Calculate
    \/ Apply
    \/ Display

SpecStock == StockInit /\ [][StockNext]_vars
SpecTest == TestInit /\ [][TestNext]_vars
SpecCriteria == CriteriaInit /\ [][CriteriaNext]_vars

\* ================================================================== claims
\* The five conditions as the specification words them, on the integers of
\* the rationals: x > 1, x > 1.5, price / bookValue < 1.5, x > 5, x > 10.
AllStrict(eps, rev, p, b, roe, gm) ==
    /\ \A i \in 1..Len(eps) : eps[i][1] > eps[i][2]
    /\ \A i \in 1..Len(rev) : 2 * rev[i][1] > 3 * rev[i][2]
    /\ IF b[1] > 0
       THEN 2 * p[1] * b[2] < 3 * p[2] * b[1]
       ELSE 2 * p[1] * b[2] > 3 * p[2] * b[1]
    /\ \A i \in 1..Len(roe) : roe[i][1] > 5 * roe[i][2]
    /\ \A i \in 1..Len(gm) : gm[i][1] > 10 * gm[i][2]

\* C1: in both variants a printed verdict is "recommended" if and only if
\* every EPS value > 1, every revenue value > 1.5, price / bookValue < 1.5,
\* every ROE value > 5 and every gross margin > 10, all strict; a value on
\* its threshold gives "not recommended".
C1_VerdictIffAllStrict ==
    /\ printed.verdict # NoVerdict =>
         (printed.verdict = Recommended <=>
            AllStrict(eps_5y, revenue_4q, price, book_value_per_share,
                      roe_4q, gross_margin_5y))
    /\ printed.verdict # NoVerdict =>
         printed.verdict \in {Recommended, NotRecommended}
    /\ shown.verdict # NoVerdict =>
         (shown.verdict = Recommended <=>
            AllStrict(data.eps_5y, data.rev_4q, data.price, data.bvps,
                      data.roe_4q, data.gm_5y))
    /\ shown.verdict # NoVerdict =>
         shown.verdict \in {Recommended, NotRecommended}

\* C1 witness: both programs printed "not recommended" for a snapshot whose
\* only flaw is one EPS value exactly 1.
C1_Witness ==
    /\ printed.verdict = NotRecommended
    /\ shown.verdict = NotRecommended
    /\ eps_5y = [i \in 1..EpsCount |-> IF i = 3 THEN Rat(1, 1) ELSE Rat(9, 2)]
    /\ data.eps_5y = eps_5y
    /\ \A i \in 2..5 : conditions[i].passed /\ crit[i].passed

CriterionLabels ==
    <<"EPS 5y > 1", "revenue 4q > 1.5", "P/B < 1.5", "ROE 4q > 5%",
      "gross margin 5y > 10%">>

\* the results other than criterion k are those of c when d is evaluated
OthersAgree(d, c, k) ==
    LET r == apply_buffett_criteria(d)
    IN  /\ Len(r) = Len(c)
        /\ \A i \in (1..Len(c)) \ {k} : r[i] = c[i]

\* C9: apply_buffett_criteria leaves its input unchanged, answers with the
\* five fixed labels in order, and each result depends on its own piece of
\* the snapshot only: replacing the EPS history alone leaves criteria 2-5 as
\* they are, revenue alone 1,3,4,5, P/B alone 1,2,4,5, ROE alone 1,2,3,5 and
\* gross margin alone 1-4.
C9_FrameAndIndependence ==
    [][(tpc = "calculated" /\ tpc' = "applied") =>
         /\ data' = data
         /\ [i \in 1..Len(crit') |-> crit'[i].desc] = CriterionLabels
         /\ \A e \in EpsHistories : OthersAgree([data EXCEPT !.eps_5y = e], crit', 1)
         /\ \A r \in RevHistories : OthersAgree([data EXCEPT !.rev_4q = r], crit', 2)
         /\ \A b \in BookValues \ {Rat(0, 1)} :
              OthersAgree([data EXCEPT !.pb_ratio = RatDiv(data.price, b)], crit', 3)
         /\ \A o \in RoeHistories : OthersAgree([data EXCEPT !.roe_4q = o], crit', 4)
         /\ \A g \in GmHistories : OthersAgree([data EXCEPT !.gm_5y = g], crit', 5)
      ]_vars

\* C9 witness: the criteria were evaluated on a snapshot whose EPS history
\* alone fails: criterion 1 is false, the four others are true.
C9_Witness ==
    /\ tpc = "applied"
    /\ ~crit[1].passed
    /\ \A i \in 2..5 : crit[i].passed
    /\ AllGt(data.roe_4q, RoeThreshold)

\* C10: on the same snapshot the interactive variant and the fetched variant
\* give the same five pass/fail values, in the same order, and the same
\* verdict.
C10_VariantsAgree ==
    (ipc = "done" /\ tpc = "done") =>
        /\ Len(conditions) = 5
        /\ Len(crit) = 5
        /\ \A i \in 1..5 : conditions[i].passed = crit[i].passed
        /\ \A i \in 1..5 : printed.lines[i].passed = shown.lines[i].passed
        /\ printed.verdict = shown.verdict

\* C10 witness: both variants reported, with P/B exactly 1.5 failing
\* criterion 3 and the other four passing.
C10_Witness ==
    /\ ipc = "done"
    /\ tpc = "done"
    /\ RatEq(pb_ratio, PbThreshold)
    /\ ~conditions[3].passed
    /\ \A i \in {1, 2, 4, 5} : conditions[i].passed
    /\ printed.verdict = NotRecommended

\* the values of a line of exactly count decimal literals, in order
ValuesOf(line) == [i \in 1..Len(split(line)) |-> float(split(line)[i])]
ValidList(line, count) ==
    /\ Len(split(line)) = count
    /\ \A i \in 1..Len(split(line)) : IsFloat(split(line)[i])

\* what one pass of get_float_list must do with the line just read: return
\* its values (to, value) without a message, or print and stay (at, kept)
PassIsRight(line, count, moved, returned, kept) ==
    IF ValidList(line, count)
    THEN moved /\ returned = ValuesOf(line) /\ errors' = errors
    ELSE ipc' = ipc /\ kept /\ errors' = errors + 1

\* C4: every line that is no list of exactly count floats prints an error
\* and leads to another prompt of the same field; get_float_list returns
\* only on a line that parses to exactly count floats, and returns those
\* values in order: "1,2,3,4,5" gives [1,2,3,4,5] for count 5, while "1,2,3"
\* and "a,b,c,d,e" are asked again.
C4_RetryUntilValid ==
    [][/\ ipc = "eps" =>
            PassIsRight(lastLine', EpsCount, ipc' = "rev", eps_5y',
                        eps_5y' = eps_5y)
       /\ ipc = "rev" =>
            PassIsRight(lastLine', QuarterCount, ipc' = "roe", revenue_4q',
                        revenue_4q' = revenue_4q)
       /\ ipc = "roe" =>
            PassIsRight(lastLine', QuarterCount, ipc' = "gm", roe_4q',
                        roe_4q' = roe_4q)
       /\ ipc = "gm" =>
            PassIsRight(lastLine', EpsCount, ipc' = "price", gross_margin_5y',
                        gross_margin_5y' = gross_margin_5y)
       /\ (ipc = "eps" /\ lastLine' = L_12345) =>
            /\ ipc' = "rev"
            /\ eps_5y' = <<Rat(1, 1), Rat(2, 1), Rat(3, 1), Rat(4, 1), Rat(5, 1)>>
       /\ (ipc = "eps" /\ lastLine' \in {L_123, L_abcde}) =>
            /\ ipc' = "eps"
            /\ errors' = errors + 1
      ]_vars

\* C4 witness: the EPS prompt rejected two lines, the second "a,b,c,d,e",
\* and then returned [1,2,3,4,5] for "1,2,3,4,5".
C4_Witness ==
    /\ ipc = "rev"
    /\ errors = 2
    /\ lastLine = L_12345
    /\ eps_5y = <<Rat(1, 1), Rat(2, 1), Rat(3, 1), Rat(4, 1), Rat(5, 1)>>

ListsAccepted ==
    /\ Len(eps_5y) = EpsCount
    /\ Len(revenue_4q) = QuarterCount
    /\ Len(roe_4q) = QuarterCount
    /\ Len(gross_margin_5y) = EpsCount

\* C8: a price line or book-value line that is no float ends the run at
\* once: no second prompt, no price-to-book, no criterion line, no verdict;
\* and the four lists have been accepted before either scalar is read.
C8_ScalarParsedOnce ==
    /\ [][/\ (ipc = "price" /\ ~IsFloat(lastLine')) => ipc' = "aborted"
          /\ (ipc = "price" /\ IsFloat(lastLine')) => ipc' = "bvps"
          /\ (ipc = "bvps" /\ ~IsFloat(lastLine')) => ipc' = "aborted"
          /\ (ipc = "bvps" /\ IsFloat(lastLine')) => ipc' = "pb"
          /\ (ipc \in {"price", "bvps"} /\ lastLine' = <<"x">>) => ipc' = "aborted"
          /\ ipc # "aborted"]_vars
    /\ [](ipc = "aborted" =>
            /\ pb_ratio = None
            /\ conditions = <<>>
            /\ printed = NothingPrinted)
    /\ [](ipc \in {"price", "bvps", "aborted"} => ListsAccepted)

\* C8 witness: the price was read, the book-value line "x" was refused, and
\* the run is over with nothing computed or printed.
C8_Witness ==
    /\ ipc = "aborted"
    /\ price = Rat(3, 1)
    /\ lastLine = <<"x">>
    /\ printed = NothingPrinted

HasSnapshot == tpc \in {"fetched", "calculated", "applied", "done", "crashed"}

\* C2: whenever price-to-book is about to be computed, in either variant,
\* the book value per share is nonzero.
C2_DivisorNonzero ==
    /\ ipc = "pb" => ~IsZero(book_value_per_share)
    /\ tpc = "fetched" => ~IsZero(data.bvps)

\* C3: every snapshot fetch_financials returns has len(eps_5y) = years_eps,
\* len(rev_4q) = quarters_rev, len(roe_4q) = quarters_rev and
\* len(gm_5y) = years_eps, for all positive windows; criteria are evaluated
\* on such a snapshot only, and a failed fetch leaves no snapshot.
C3_LengthInvariant ==
    /\ HasSnapshot =>
         /\ Len(data.eps_5y) = args.years_eps
         /\ Len(data.rev_4q) = args.quarters_rev
         /\ Len(data.roe_4q) = args.quarters_rev
         /\ Len(data.gm_5y) = args.years_eps
    /\ crit # <<>> => HasSnapshot
    /\ tpc = "exited" => data = NoData /\ crit = <<>>

\* C3 witness: a fetch with windows 2 and 3 from rows of five entries, the
\* second income record unusable so that the EPS fallback ran.
C3_Witness ==
    /\ tpc = "done"
    /\ args = [years_eps |-> 2, quarters_rev |-> 3]
    /\ Len(ticker.fin.loc["Gross Profit"]) = 5
    /\ Len(ticker.info.incomeStatementHistory) = 5
    /\ ticker.info.incomeStatementHistory[2] = None
    /\ data.eps_5y = <<Rat(9, 2), Rat(9, 2)>>
    /\ Len(data.rev_4q) = 3

\* the failure conditions of the fetch, read off the provider's answer
PriceAbsent ==
    ticker.info.regularMarketPrice = None \/ ticker.info.bookValue = None
RevenueShort ==
    \/ "Total Revenue" \notin ticker.qf.index
    \/ Len(ticker.qf.loc["Total Revenue"]) < args.quarters_rev
GrossMarginMissing ==
    \/ "Gross Profit" \notin ticker.fin.index
    \/ "Total Revenue" \notin ticker.fin.index
    \/ Len(ticker.fin.loc["Gross Profit"]) < args.years_eps
    \/ Len(ticker.fin.loc["Total Revenue"]) < args.years_eps

\* every error ends the run caught: status 1, nothing displayed
ErrorsEndCaught ==
    /\ error # "" => tpc = "exited" /\ exit_code = 1
    /\ tpc = "exited" => shown = NothingPrinted /\ crit = <<>> /\ exit_code = 1
    /\ (tpc # "start" /\
        (ticker.raises \/ PriceAbsent \/ RevenueShort \/ GrossMarginMissing))
         => tpc = "exited"
    /\ shown # NothingPrinted => error = "" /\ exit_code = 0

\* C5: in the fetched variant every fatal error, of the fetch or after it, is
\* caught at the top level and ends the run with a non-zero status and no
\* result displayed; no run ends with an uncaught exception.
C5_FatalErrorsCaught ==
    /\ ErrorsEndCaught
    /\ tpc # "crashed"

\* the fetch got as far as the named section and did not fail before it
ReachedEps ==
    /\ tpc \notin {"start", "off"}
    /\ error \notin {"provider error", "no price or book value"}
ReachedRoe ==
    /\ ReachedEps
    /\ error \notin {"no annual EPS", "quarterly revenue too short"}

\* the quotient netIncome / sharesOutstanding exists for each of the first n
\* records: every net income is given and the share count is a nonzero number
QuotientsDefined(info, n) ==
    /\ info.sharesOutstanding # None
    /\ ~IsZero(info.sharesOutstanding)
    /\ \A i \in 1..n : info.incomeStatementHistory[i] # None

\* C6: with fewer income records than the window the EPS history is the
\* trailing EPS repeated years_eps times, the fetch failing only if that
\* figure is absent; with at least years_eps records it is netIncome /
\* sharesOutstanding of each of the first years_eps records, in order, and
\* the trailing figure is not used (read for the records for which that
\* quotient exists).
C6_EpsResolution ==
    ReachedEps =>
        LET info == ticker.info
            hist == info.incomeStatementHistory
            n    == args.years_eps
        IN  IF Len(hist) < n
            THEN IF info.trailingEps = None
                 THEN error = "no annual EPS"
                 ELSE /\ error # "no annual EPS"
                      /\ HasSnapshot => data.eps_5y = Repeat(info.trailingEps, n)
            ELSE QuotientsDefined(info, n) =>
                   /\ error # "no annual EPS"
                   /\ HasSnapshot =>
                        /\ Len(data.eps_5y) = n
                        /\ \A i \in 1..n :
                             RatEq(data.eps_5y[i],
                                   RatDiv(hist[i], info.sharesOutstanding))

\* the computed ROE path yields exactly quarters_rev values
RoeComputable ==
    /\ "Net Income" \in ticker.qf.index
    /\ Truthy(ticker.info.totalStockholderEquity)
    /\ Len(ticker.qf.loc["Net Income"]) >= args.quarters_rev

\* C7: the computed ROE is used if and only if it yields exactly
\* quarters_rev values; otherwise the history is the trailing ROE figure, or
\* the fallback figure when the trailing one is absent, repeated
\* quarters_rev times; the fetch fails on ROE only when neither figure is
\* present, so a present figure of any value, 0 included, is substituted.
C7_RoeResolution ==
    ReachedRoe =>
        LET info == ticker.info
            n    == args.quarters_rev
            figure == IF info.trailingReturnOnEquity # None
                      THEN info.trailingReturnOnEquity
                      ELSE info.returnOnEquity
        IN  IF RoeComputable
            THEN /\ error # "no quarterly ROE"
                 /\ HasSnapshot =>
                      data.roe_4q =
                        [i \in 1..n |->
                           Times100(RatDiv(ticker.qf.loc["Net Income"][i],
                                           info.totalStockholderEquity))]
            ELSE IF figure = None
                 THEN error = "no quarterly ROE"
                 ELSE /\ error # "no quarterly ROE"
                      /\ HasSnapshot => data.roe_4q = Repeat(figure, n)

=============================================================================
